---- MODULE Spec2Model ----
(***************************************************************************)
(* Tiled non-max suppression of keras_hub (non_max_supression.py):         *)
(* non_max_suppression, _bbox_overlap, _self_suppression,                  *)
(* _cross_suppression, _suppression_loop_body and mask_invalid_detections. *)
(*                                                                         *)
(* A box is <<ymin, xmin, ymax, xmax>> with integer coordinates.  A batch  *)
(* is a sequence of images, an image a sequence of boxes.  Positions are   *)
(* 1-based sequence positions; box indices stored as values (the sorted    *)
(* permutation, the returned idx) are the 0-based indices of the code.     *)
(*                                                                         *)
(* IoU values are float32 in the code.  Here an IoU is the integer         *)
(* IouScale * i_area / u_area; the inputs are chosen so that the division  *)
(* is exact (IouExact), and iou_threshold is held in the same unit.        *)
(***************************************************************************)
EXTENDS Integers, Sequences, FiniteSets

Max(a, b) == IF a >= b THEN a ELSE b
Min(a, b) == IF a <= b THEN a ELSE b

(* Python's // (floor division), also for a negative divisor. *)
FloorDiv(a, b) == IF b > 0 THEN a \div b ELSE (0 - a) \div (0 - b)

(* Python's math.ceil(a / b) for b # 0. *)
CeilDiv(a, b) == 0 - FloorDiv(0 - a, b)

(* F(e) with e computed once, for values that are used many times *)
Bind(e, F(_)) == [x \in {e} |-> F(x)][e]

(* a function on 1..n as the tuple of its values, computed once *)
Tup(f) == f \o << >>

RECURSIVE SumSeq(_)
SumSeq(s) == IF s = << >> THEN 0 ELSE Head(s) + SumSeq(Tail(s))

MaxSeq(s) == CHOOSE m \in {s[i] : i \in DOMAIN s} : \A i \in DOMAIN s : s[i] <= m

(* One unit of IoU: an IoU of 1 is IouScale.  Every union area of two     *)
(* boxes of the inputs below divides it.                                   *)
IouScale == 2 * 2 * 3 * 5

ZeroBox == <<0, 0, 0, 0>>

(* box * mask for a 0/1 mask *)
ScaleBox(box, m) == <<box[1] * m, box[2] * m, box[3] * m, box[4] * m>>

(* ops.any(box > 0, [2]) for one box *)
AnyPositive(box) == \E c \in 1..4 : box[c] > 0

(***************************************************************************)
(* _bbox_overlap for one pair of boxes.  EPSILON = 1e-8 only matters when  *)
(* the union area is 0 (then the IoU is 0 / EPSILON = 0): for an integer   *)
(* union area u >= 1, u + 1e-8 rounds to u in float32.                     *)
(***************************************************************************)
IArea(a, b) ==
    Max(Min(a[4], b[4]) - Max(a[2], b[2]), 0) * Max(Min(a[3], b[3]) - Max(a[1], b[1]), 0)

BoxArea(a) == (a[3] - a[1]) * (a[4] - a[2])

UArea(a, b) == BoxArea(a) + BoxArea(b) - IArea(a, b)

BoxIoU(a, b) == IF UArea(a, b) = 0 THEN 0 ELSE (IArea(a, b) * IouScale) \div UArea(a, b)

(* _bbox_overlap for one image: iou[i][j] of boxes_a[i] and boxes_b[j] *)
bbox_overlap(boxes_a, boxes_b) ==
    Tup([i \in 1..Len(boxes_a) |-> Tup([j \in 1..Len(boxes_b) |-> BoxIoU(boxes_a[i], boxes_b[j])])])

(***************************************************************************)
(* _sort_scores_and_boxes for one image.  ops.argsort is taken as the      *)
(* stable ascending sort; ops.flip reverses it.                            *)
(***************************************************************************)
ArgSortBefore(s, i, j) == s[i] < s[j] \/ (s[i] = s[j] /\ i < j)

ArgSort(s) ==
    Tup([r \in 1..Len(s) |->
        (CHOOSE i \in 1..Len(s) :
            Cardinality({j \in 1..Len(s) : ArgSortBefore(s, j, i)}) = r - 1) - 1])

Flip(s) == Tup([r \in 1..Len(s) |-> s[Len(s) + 1 - r]])

sorted_scores_indices(s) == Flip(ArgSort(s))

(* ops.take_along_axis(x, indices) for one image; indices are 0-based *)
TakeAlong(x, indices) == Tup([r \in 1..Len(indices) |-> x[indices[r] + 1]])

(* ops.pad with `pad` trailing copies of z *)
PadSeq(s, pad, z) == s \o Tup([r \in 1..pad |-> z])

(***************************************************************************)
(* Score masking, lines 242-246.  score_threshold is a record: neg_inf     *)
(* says that it is float("-inf"), and then no masking is done.             *)
(***************************************************************************)
(* a score_mask that lets a score equal to the threshold through *)
score_mask_inclusive(score, sthr) == IF score >= sthr.value THEN 1 ELSE 0

score_mask(score, sthr) == IF score > sthr.value THEN 1 ELSE 0

MaskedScores(s, sthr) ==
    IF sthr.neg_inf THEN s ELSE Tup([p \in 1..Len(s) |-> s[p] * score_mask(s[p], sthr)])

MaskedBoxes(bx, s, sthr) ==
    IF sthr.neg_inf THEN bx
    ELSE Tup([p \in 1..Len(bx) |-> ScaleBox(bx[p], score_mask(s[p], sthr))])

(* pad, lines 250-253; tile_size # 0 *)
PadLen(num_boxes, k, ts) == CeilDiv(Max(num_boxes, k), ts) * ts - num_boxes

(***************************************************************************)
(* _cross_suppression for one image: the tile inner_idx of boxes           *)
(* suppresses box_slice.                                                   *)
(***************************************************************************)
TileSlice(bx, t, ts) == Tup([p \in 1..ts |-> bx[t * ts + p]])

cross_suppression(bx, box_slice, thr, inner_idx, ts) ==
    LET new_slice == TileSlice(bx, inner_idx, ts)
    IN  Bind(bbox_overlap(new_slice, box_slice), LAMBDA iou :
            Tup([j \in 1..ts |->
                ScaleBox(box_slice[j], IF \A i \in 1..ts : iou[i][j] < thr THEN 1 ELSE 0)]))

(***************************************************************************)
(* The masked self IoU of a tile, lines 497-503: entry [i][j] is kept when *)
(* column j > row i and iou >= iou_threshold.                              *)
(***************************************************************************)
masked_iou(box_slice, thr) ==
    Bind(bbox_overlap(box_slice, box_slice), LAMBDA iou :
        Tup([i \in 1..Len(box_slice) |-> Tup([j \in 1..Len(box_slice) |->
            IF j > i /\ iou[i][j] >= thr THEN iou[i][j] ELSE 0])]))

MatSum(m) == SumSeq(Tup([i \in 1..Len(m) |-> SumSeq(m[i])]))

ColMax(m, j) == MaxSeq(Tup([i \in 1..Len(m) |-> m[i][j]]))

(***************************************************************************)
(* _self_suppression for one image, lines 385-397.                         *)
(***************************************************************************)
can_suppress_others(iou, i, thr) == IF ColMax(iou, i) < thr THEN 1 ELSE 0

iou_after_suppression(iou, thr) ==
    Bind(Tup([i \in 1..Len(iou) |-> can_suppress_others(iou, i, thr)]), LAMBDA can :
    Bind(Tup([i \in 1..Len(iou) |-> Tup([j \in 1..Len(iou) |-> can[i] * iou[i][j]])]), LAMBDA weighted :
    Bind(Tup([i \in 1..Len(iou) |-> IF ColMax(weighted, i) < thr THEN 1 ELSE 0]), LAMBDA keep :
        Tup([i \in 1..Len(iou) |-> Tup([j \in 1..Len(iou) |-> keep[i] * iou[i][j]])]))))

(* the loop's continue flag, line 401: an `any` over the batch *)
iou_diff(iou_sum, iou_sum_new, thr) ==
    \E b \in 1..Len(iou_sum) : iou_sum[b] - iou_sum_new[b] > thr

(* _self_suppression on the batch: [iou, loop_condition, iou_sum] *)
self_suppression(iou, iou_sum, thr) ==
    Bind(Tup([b \in 1..Len(iou) |-> iou_after_suppression(iou[b], thr)]), LAMBDA after :
    Bind(Tup([b \in 1..Len(iou) |-> MatSum(after[b])]), LAMBDA iou_sum_new :
        [iou |-> after, loop_condition |-> iou_diff(iou_sum, iou_sum_new, thr),
         iou_sum |-> iou_sum_new]))

(* lines 509-512: a box of the tile is zeroed when its column sum is > 0 *)
suppressed_box(suppressed_iou, j) ==
    SumSeq(Tup([i \in 1..Len(suppressed_iou) |-> suppressed_iou[i][j]])) > 0

apply_suppressed(box_slice, suppressed_iou) ==
    Tup([j \in 1..Len(box_slice) |->
        ScaleBox(box_slice[j], IF suppressed_box(suppressed_iou, j) THEN 0 ELSE 1)])

(* lines 515-524: box_slice replaces tile idx of boxes *)
update_boxes(bx, box_slice, idx, ts) ==
    Tup([p \in 1..Len(bx) |->
        IF FloorDiv(p - 1, ts) = idx THEN box_slice[p - idx * ts] ELSE bx[p]])

(* a count of every slot of the tile, suppressed or not *)
count_all_slots(box_slice) == Len(box_slice)

(* line 527 *)
count_kept(box_slice) == Cardinality({j \in 1..Len(box_slice) : AnyPositive(box_slice[j])})

(***************************************************************************)
(* Recovery of the indices for one image, lines 281-292 and 300-314.       *)
(***************************************************************************)
(* line 283-287: kept flag times arange(num_boxes_after_padding, 0, -1) *)
(* the kept flag alone, without the position weight *)
kept_weight_flag_only(bx) == Tup([p \in 1..Len(bx) |-> IF AnyPositive(bx[p]) THEN 1 ELSE 0])

(* the kept flag weighted by an ascending arange(1, n + 1) *)
kept_weight_ascending(bx) == Tup([p \in 1..Len(bx) |-> (IF AnyPositive(bx[p]) THEN 1 ELSE 0) * p])

kept_weight(bx) ==
    Tup([p \in 1..Len(bx) |-> (IF AnyPositive(bx[p]) THEN 1 ELSE 0) * (Len(bx) - (p - 1))])

(* ops.top_k(w, k)[0]: the k largest values, largest first; k <= Len(w) *)
top_k(w, k) ==
    Tup([r \in 1..k |->
        w[CHOOSE p \in 1..Len(w) :
            Cardinality({q \in 1..Len(w) : w[q] > w[p] \/ (w[q] = w[p] /\ q < p)}) = r - 1]])

(* lines 281-292: positions (0-based) in the sorted array, clipped *)
recovered_positions(bx, k, num_boxes) ==
    Bind(kept_weight(bx), LAMBDA w :
    Bind(top_k(w, k), LAMBDA top :
        Tup([r \in 1..k |-> Min(Len(bx) - top[r], num_boxes - 1)])))

(* num_valid without the clamp *)
num_valid_unclamped(output_size, k) == output_size

(* line 280 *)
clamp_num_valid(output_size, k) == Min(output_size, k)

(* lines 294-314 for one image *)
recover_idx(bx, sorted_indices, output_size, k, num_boxes) ==
    Bind(recovered_positions(bx, k, num_boxes), LAMBDA pos :
    Bind(TakeAlong(sorted_indices, pos), LAMBDA gathered :
        Tup([r \in 1..k |-> IF r - 1 < clamp_num_valid(output_size, k) THEN gathered[r] ELSE 0])))

(***************************************************************************)
(* The batch before the loop, lines 237-257.                               *)
(***************************************************************************)
prepare_fails(bxs, k, ts) == ts = 0 \/ PadLen(Len(bxs[1]), k, ts) < 0

prepared_indices(scs, sthr) ==
    Tup([b \in 1..Len(scs) |-> sorted_scores_indices(MaskedScores(scs[b], sthr))])

prepared_boxes(bxs, scs, k, sthr, ts) ==
    Tup([b \in 1..Len(bxs) |->
        PadSeq(TakeAlong(MaskedBoxes(bxs[b], scs[b], sthr), prepared_indices(scs, sthr)[b]),
               PadLen(Len(bxs[1]), k, ts), ZeroBox)])

prepared_scores(scs, k, sthr, ts) ==
    Tup([b \in 1..Len(scs) |->
        PadSeq(TakeAlong(MaskedScores(scs[b], sthr), prepared_indices(scs, sthr)[b]),
               PadLen(Len(scs[1]), k, ts), 0)])

num_iterations_of(num_boxes_after_padding, ts) == FloorDiv(num_boxes_after_padding, ts)

MinSeq(s) == CHOOSE m \in {s[i] : i \in DOMAIN s} : \A i \in DOMAIN s : m <= s[i]

(* a _loop_cond that does not look at output_size *)
loop_cond_index_only(out, i, k, iterations) == i < iterations

(* _loop_cond, lines 259-263 *)
loop_cond(out, i, k, iterations) == MinSeq(out) < k /\ i < iterations

(***************************************************************************)
(* The pieces of _suppression_loop_body on the batch.                      *)
(***************************************************************************)
take_slice(bxs, i, ts) == Tup([b \in 1..Len(bxs) |-> TileSlice(bxs[b], i, ts)])

cross_step(bxs, slice, thr, inner, ts) ==
    Tup([b \in 1..Len(bxs) |-> cross_suppression(bxs[b], slice[b], thr, inner, ts)])

self_begin(slice, thr) == Tup([b \in 1..Len(slice) |-> masked_iou(slice[b], thr)])

sums_of(m) == Tup([b \in 1..Len(m) |-> MatSum(m[b])])

tile_result(slice, suppressed_iou) ==
    Tup([b \in 1..Len(slice) |-> apply_suppressed(slice[b], suppressed_iou[b])])

boxes_after_tile(bxs, slice, i, ts) ==
    Tup([b \in 1..Len(bxs) |-> update_boxes(bxs[b], slice[b], i, ts)])

output_size_after_tile(out, slice) == Tup([b \in 1..Len(out) |-> out[b] + count_kept(slice[b])])

(***************************************************************************)
(* The whole of non_max_suppression as one function of its arguments,      *)
(* built from the same pieces as the actions below.                        *)
(***************************************************************************)
RECURSIVE cross_loop(_, _, _, _, _, _)
cross_loop(bxs, slice, thr, inner, i, ts) ==
    IF inner < i
    THEN Bind(cross_step(bxs, slice, thr, inner, ts),
              LAMBDA r : cross_loop(bxs, r, thr, inner + 1, i, ts))
    ELSE slice

RECURSIVE self_loop(_, _, _, _)
self_loop(m, cond, sums, thr) ==
    IF cond
    THEN Bind(self_suppression(m, sums, thr),
              LAMBDA r : self_loop(r.iou, r.loop_condition, r.iou_sum, thr))
    ELSE m

(* the iou matrices after the self-suppression loop of lines 497-508 *)
suppressed_iou_of(slice, thr) ==
    Bind(self_begin(slice, thr), LAMBDA m : self_loop(m, TRUE, sums_of(m), thr))

(* the box_slice after both phases *)
final_slice(bxs, thr, i, ts) ==
    Bind(take_slice(bxs, i, ts), LAMBDA first :
        Bind(cross_loop(bxs, first, thr, 0, i, ts), LAMBDA crossed :
            Bind(suppressed_iou_of(crossed, thr), LAMBDA m : tile_result(crossed, m))))

suppression_loop_body(bxs, thr, out, i, ts) ==
    Bind(final_slice(bxs, thr, i, ts), LAMBDA slice :
        [boxes |-> boxes_after_tile(bxs, slice, i, ts),
         output_size |-> output_size_after_tile(out, slice),
         idx |-> i + 1])

RECURSIVE while_loop(_, _, _, _, _, _)
while_loop(bxs, thr, out, i, k, ts) ==
    IF loop_cond(out, i, k, num_iterations_of(Len(bxs[1]), ts))
    THEN Bind(suppression_loop_body(bxs, thr, out, i, ts),
              LAMBDA r : while_loop(r.boxes, thr, r.output_size, r.idx, k, ts))
    ELSE [boxes |-> bxs, output_size |-> out]

non_max_suppression(bxs, scs, k, thr, sthr, ts) ==
    IF prepare_fails(bxs, k, ts)
    THEN [error |-> TRUE, idx |-> << >>, num_valid |-> << >>]
    ELSE Bind(prepared_boxes(bxs, scs, k, sthr, ts), LAMBDA padded :
         Bind(prepared_indices(scs, sthr), LAMBDA indices :
         Bind(while_loop(padded, thr, Tup([b \in 1..Len(bxs) |-> 0]), 0, k, ts), LAMBDA r :
            [error |-> FALSE,
             idx |-> Tup([b \in 1..Len(bxs) |->
                         recover_idx(r.boxes[b], indices[b], r.output_size[b], k,
                                     Len(bxs[1]))]),
             num_valid |-> Tup([b \in 1..Len(bxs) |-> clamp_num_valid(r.output_size[b], k)])])))

(***************************************************************************)
(* State.  boxes_in .. tile_size are the arguments of one call of          *)
(* non_max_suppression; the rest are its locals and loop variables.        *)
(* self_steps counts the executions of _self_suppression by the            *)
(* while_loop of lines 504-508 on the current tile, up to tile_size + 1    *)
(* (a loop that never ends keeps the count there).  bounding_boxes and     *)
(* result belong to mask_invalid_detections.                               *)
(***************************************************************************)
VARIABLES pc, boxes_in, scores_in, max_output_size, iou_threshold, score_threshold,
          tile_size, sorted_indices, boxes, scores, output_size, idx, box_slice,
          inner_idx, iou, loop_condition, iou_sum, self_steps, ret_idx, num_valid,
          bounding_boxes, result

args == <<boxes_in, scores_in, max_output_size, iou_threshold, score_threshold, tile_size>>
prepared == <<sorted_indices, boxes, scores>>
tile_vars == <<box_slice, inner_idx, iou, loop_condition, iou_sum, self_steps>>
returned == <<ret_idx, num_valid>>
mask_vars == <<bounding_boxes, result>>
vars == <<pc, args, prepared, output_size, idx, tile_vars, returned, mask_vars>>

(***************************************************************************)
(* Inputs.                                                                 *)
(***************************************************************************)
MaxBoxes == 2
MaxChain == 5
MaxOut == 3

(* a 1 x 3 box at horizontal offset s: two of them at distance d have IoU  *)
(* (3 - d) / (3 + d) for d <= 3, so 1, 1/2, 1/5, 0                         *)
Slide(s) == <<0, s, 1, s + 3>>

Palette == {Slide(0), Slide(1), Slide(3), ZeroBox}
Scores == {0, 1}

NegInf == [neg_inf |-> TRUE, value |-> 0]
ScoreThresholds == {NegInf, [neg_inf |-> FALSE, value |-> 0]}

Half == IouScale \div 2
ValidIou == {0, Half, IouScale}
InvalidIou == {0 - Half, IouScale + Half}

(* every image of n boxes over the palette, with every scoring *)
SmallImages(n) == [boxes : [1..n -> Palette], scores : [1..n -> Scores]]

(* n boxes in a row, each overlapping the next with IoU 1/2, equal scores *)
ChainImage(n) == [boxes |-> Tup([p \in 1..n |-> Slide(p - 1)]), scores |-> Tup([p \in 1..n |-> 1])]

(* n copies of one box, equal scores *)
ConstImage(n) == [boxes |-> Tup([p \in 1..n |-> Slide(0)]), scores |-> Tup([p \in 1..n |-> 1])]

LargeImages(n) == {ChainImage(n), ConstImage(n)}

ImagesOf(n) == IF n <= MaxBoxes THEN SmallImages(n) \cup LargeImages(n) ELSE LargeImages(n)

(* the batches: one image of any kind, or two of the large images *)
Batches ==
    UNION {{<<im>> : im \in ImagesOf(n)} : n \in 1..MaxChain}
    \cup UNION {{<<a, b>> : a \in LargeImages(n), b \in LargeImages(n)} : n \in 1..MaxChain}

BatchBoxes(batch) == Tup([b \in 1..Len(batch) |-> batch[b].boxes])
BatchScores(batch) == Tup([b \in 1..Len(batch) |-> batch[b].scores])

ValidArgs == iou_threshold \in ValidIou /\ tile_size > 0

num_boxes == Len(boxes_in[1])
batch_size == Len(boxes_in)
num_boxes_after_padding == Len(boxes[1])
num_iterations == num_iterations_of(num_boxes_after_padding, tile_size)

NoMask == [has |-> FALSE]

InitLocals ==
    /\ pc = "start"
    /\ sorted_indices = << >> /\ boxes = << >> /\ scores = << >>
    /\ output_size = << >> /\ idx = 0
    /\ box_slice = << >> /\ inner_idx = 0 /\ iou = << >>
    /\ loop_condition = FALSE /\ iou_sum = << >> /\ self_steps = 0
    /\ ret_idx = << >> /\ num_valid = << >>
    /\ bounding_boxes = NoMask /\ result = NoMask

(* calls within the contract: iou_threshold in [0, 1], tile_size > 0 *)
InitValid ==
    /\ \E batch \in Batches :
        /\ boxes_in = BatchBoxes(batch)
        /\ scores_in = BatchScores(batch)
        /\ tile_size \in 1..(Len(batch[1].boxes) + 1)
    /\ max_output_size \in 0..MaxOut
    /\ iou_threshold \in ValidIou
    /\ score_threshold \in ScoreThresholds

(* calls outside it *)
InitInvalid ==
    /\ \E n \in 1..MaxBoxes : \E im \in LargeImages(n) :
        /\ boxes_in = <<im.boxes>>
        /\ scores_in = <<im.scores>>
    /\ max_output_size \in 0..MaxOut
    /\ score_threshold = NegInf
    /\ iou_threshold \in ValidIou \cup InvalidIou
    /\ tile_size \in -1..MaxBoxes
    /\ ~ValidArgs

Init == InitLocals /\ (InitValid \/ InitInvalid)

(***************************************************************************)
(* Actions of non_max_suppression.                                         *)
(***************************************************************************)
(* lines 237-257 and 276-277; math.ceil(x / 0) raises ZeroDivisionError,   *)
(* ops.pad rejects a negative width                                        *)
Prepare ==
    /\ pc = "start"
    /\ IF prepare_fails(boxes_in, max_output_size, tile_size)
       THEN /\ pc' = "error"
            /\ UNCHANGED <<prepared, output_size>>
       ELSE /\ pc' = "loop"
            /\ sorted_indices' = prepared_indices(scores_in, score_threshold)
            /\ boxes' = prepared_boxes(boxes_in, scores_in, max_output_size,
                                       score_threshold, tile_size)
            /\ scores' = prepared_scores(scores_in, max_output_size,
                                         score_threshold, tile_size)
            /\ output_size' = Tup([b \in 1..batch_size |-> 0])
    /\ UNCHANGED <<args, idx, tile_vars, returned, mask_vars>>

LoopCond == loop_cond(output_size, idx, max_output_size, num_iterations)

(* lines 477-489: the loop body starts on tile idx *)
TileBegin ==
    /\ pc = "loop" /\ LoopCond
    /\ box_slice' = take_slice(boxes, idx, tile_size)
    /\ inner_idx' = 0
    /\ pc' = "cross"
    /\ UNCHANGED <<args, prepared, output_size, idx, iou, loop_condition, iou_sum,
                   self_steps, returned, mask_vars>>

(* one iteration of the while_loop of lines 490-494 *)
CrossSuppression ==
    /\ pc = "cross" /\ inner_idx < idx
    /\ box_slice' = cross_step(boxes, box_slice, iou_threshold, inner_idx, tile_size)
    /\ inner_idx' = inner_idx + 1
    /\ UNCHANGED <<pc, args, prepared, output_size, idx, iou, loop_condition, iou_sum,
                   self_steps, returned, mask_vars>>

(* lines 497-507: the initial values of the self-suppression loop *)
SelfBegin ==
    /\ pc = "cross" /\ ~(inner_idx < idx)
    /\ iou' = self_begin(box_slice, iou_threshold)
    /\ loop_condition' = TRUE
    /\ iou_sum' = sums_of(self_begin(box_slice, iou_threshold))
    /\ self_steps' = 0
    /\ pc' = "self"
    /\ UNCHANGED <<args, prepared, output_size, idx, box_slice, inner_idx, returned,
                   mask_vars>>

(* one iteration of the while_loop of lines 504-508 *)
SelfSuppression ==
    /\ pc = "self" /\ loop_condition
    /\ LET r == self_suppression(iou, iou_sum, iou_threshold)
       IN  /\ iou' = r.iou
           /\ loop_condition' = r.loop_condition
           /\ iou_sum' = r.iou_sum
    /\ self_steps' = Min(self_steps + 1, tile_size + 1)
    /\ UNCHANGED <<pc, args, prepared, output_size, idx, box_slice, inner_idx, returned,
                   mask_vars>>

(* lines 509-528 *)
TileEnd ==
    /\ pc = "self" /\ ~loop_condition
    /\ LET slice == tile_result(box_slice, iou)
       IN  /\ box_slice' = slice
           /\ boxes' = boxes_after_tile(boxes, slice, idx, tile_size)
           /\ output_size' = output_size_after_tile(output_size, slice)
    /\ idx' = idx + 1
    /\ pc' = "loop"
    /\ UNCHANGED <<args, sorted_indices, scores, inner_idx, iou, loop_condition, iou_sum,
                   self_steps, returned, mask_vars>>

(* lines 280-317 *)
Recover ==
    /\ pc = "loop" /\ ~LoopCond
    /\ num_valid' = Tup([b \in 1..batch_size |-> clamp_num_valid(output_size[b], max_output_size)])
    /\ ret_idx' = Tup([b \in 1..batch_size |->
                      recover_idx(boxes[b], sorted_indices[b], output_size[b],
                                  max_output_size, num_boxes)])
    /\ pc' = "done"
    /\ UNCHANGED <<args, prepared, output_size, idx, tile_vars, mask_vars>>

Next ==
    \/ Prepare
    \/ TileBegin
    \/ CrossSuppression
    \/ SelfBegin
    \/ SelfSuppression
    \/ TileEnd
    \/ Recover

Spec == Init /\ [][Next]_vars

(***************************************************************************)
(* Consistency of the model: the actions compute non_max_suppression, and  *)
(* every IoU of the inputs is exact in units of 1 / IouScale.              *)
(***************************************************************************)
ActionsComputeFunction ==
    (pc \in {"done", "error"} /\ iou_threshold >= 0) =>
        LET r == non_max_suppression(boxes_in, scores_in, max_output_size, iou_threshold,
                                     score_threshold, tile_size)
        IN  /\ r.error = (pc = "error")
            /\ pc = "done" => r.idx = ret_idx /\ r.num_valid = num_valid

IouExact ==
    \A b \in 1..batch_size : \A p, q \in 1..num_boxes :
        LET u == UArea(boxes_in[b][p], boxes_in[b][q])
        IN  u # 0 => (IArea(boxes_in[b][p], boxes_in[b][q]) * IouScale) % u = 0

(***************************************************************************)
(* The returned selection and the quantities the properties speak of.      *)
(***************************************************************************)
Done == pc = "done"

(* indices[b][:num_valid[b]] as a set *)
Selected(b) == {ret_idx[b][r] : r \in 1..num_valid[b]}

SelectedOf(r, b) == {r.idx[b][q] : q \in 1..r.num_valid[b]}

(* does a score exceed the score threshold *)
Exceeds(score, sthr) == sthr.neg_inf \/ score > sthr.value

(* IoU of two original boxes of image b, by their 0-based indices *)
OrigIoU(b, i, j) == BoxIoU(boxes_in[b][i + 1], boxes_in[b][j + 1])

(***************************************************************************)
(* The sequential greedy reference: the boxes whose score exceeds the      *)
(* threshold, by descending score (equal scores: larger index first); a    *)
(* box is kept iff its IoU with every box kept so far is below thr, and    *)
(* at most k boxes are kept.                                               *)
(***************************************************************************)
RefBefore(s, i, j) == s[i] > s[j] \/ (s[i] = s[j] /\ i > j)

RefOrder(s) ==
    Tup([r \in 1..Len(s) |->
        CHOOSE i \in 1..Len(s) :
            Cardinality({j \in 1..Len(s) : RefBefore(s, j, i)}) = r - 1])

RECURSIVE GreedyFrom(_, _, _, _, _, _, _, _)
GreedyFrom(bx, s, sthr, thr, k, order, r, kept) ==
    IF r > Len(order) \/ Cardinality(kept) >= k
    THEN kept
    ELSE LET i == order[r]
             keep == /\ Exceeds(s[i], sthr)
                     /\ \A j \in kept : BoxIoU(bx[i], bx[j]) < thr
         IN  Bind(IF keep THEN kept \cup {i} ELSE kept,
                  LAMBDA next : GreedyFrom(bx, s, sthr, thr, k, order, r + 1, next))

(* the 0-based indices the reference keeps *)
Greedy(bx, s, sthr, thr, k) ==
    {i - 1 : i \in Bind(RefOrder(s), LAMBDA order :
                        GreedyFrom(bx, s, sthr, thr, k, order, 1, {}))}

(* C1: within the contract (iou_threshold in [0,1], tile_size > 0) the     *)
(* returned set indices[i][:num_valid[i]] of every image equals the result *)
(* of the sequential greedy reference.                                     *)
C1_EqualsGreedy ==
    (Done /\ ValidArgs) =>
        \A b \in 1..batch_size :
            Selected(b) = Greedy(boxes_in[b], scores_in[b], score_threshold,
                                 iou_threshold, max_output_size)

(* C2: for iou_threshold in [0,1], any two distinct returned entries of an *)
(* image refer to original boxes whose IoU is strictly below               *)
(* iou_threshold.                                                          *)
C2_NoOverlapSelected ==
    (Done /\ ValidArgs) =>
        \A b \in 1..batch_size : \A r1, r2 \in 1..num_valid[b] :
            r1 # r2 => OrigIoU(b, ret_idx[b][r1], ret_idx[b][r2]) < iou_threshold

(* C3: a call with tile_size t1 < N returns the same (indices, num_valid)  *)
(* as the call with a single tile, tile_size t2 >= N, all else equal.      *)
C3_TileSizeIrrelevant ==
    (Done /\ ValidArgs /\ tile_size < num_boxes) =>
        \A t2 \in num_boxes..(num_boxes + 1) :
            LET r == non_max_suppression(boxes_in, scores_in, max_output_size,
                                         iou_threshold, score_threshold, t2)
            IN  r.idx = ret_idx /\ r.num_valid = num_valid

(* C4: 0 <= num_valid[i] <= max_output_size and num_valid[i] <= N for      *)
(* every image, also when max_output_size > N and padding boxes are added. *)
C4_NumValidBounded ==
    Done => \A b \in 1..batch_size :
                /\ 0 <= num_valid[b]
                /\ num_valid[b] <= max_output_size
                /\ num_valid[b] <= num_boxes

(* more outputs asked for than there are boxes, padding added, all kept *)
C4_Witness ==
    /\ Done
    /\ max_output_size > num_boxes
    /\ num_boxes_after_padding > num_boxes
    /\ \E b \in 1..batch_size : num_valid[b] = num_boxes

(* C5: the entries indices[i][0 .. num_valid[i]-1] are pairwise distinct   *)
(* original box indices in [0, N).                                         *)
C5_DistinctInRange ==
    Done => \A b \in 1..batch_size :
                /\ \A r \in 1..num_valid[b] : ret_idx[b][r] \in 0..(num_boxes - 1)
                /\ \A r1, r2 \in 1..num_valid[b] :
                       r1 # r2 => ret_idx[b][r1] # ret_idx[b][r2]

(* the tile loop left early, with tiles unprocessed, and two boxes chosen *)
C5_Witness ==
    /\ Done
    /\ idx < num_iterations
    /\ \E b \in 1..batch_size : num_valid[b] >= 2 /\ num_valid[b] < num_boxes

(* C6: every index selected with max_output_size = k1 is also selected     *)
(* with any larger max_output_size k2, all other arguments equal.          *)
C6_MonotoneInMaxOutput ==
    (Done /\ ValidArgs) =>
        \A k2 \in max_output_size..(MaxOut + 1) :
            LET r == non_max_suppression(boxes_in, scores_in, k2, iou_threshold,
                                         score_threshold, tile_size)
            IN  \A b \in 1..batch_size : Selected(b) \subseteq SelectedOf(r, b)

(* an early exit with one box chosen, where two are chosen when asked *)
C6_Witness ==
    /\ Done /\ ValidArgs
    /\ max_output_size = 1 /\ idx < num_iterations /\ num_valid[1] = 1
    /\ non_max_suppression(boxes_in, scores_in, 2, iou_threshold, score_threshold,
                           tile_size).num_valid[1] = 2

(* C7: a call with iou_threshold outside [0,1] or tile_size <= 0 is        *)
(* rejected before any suppression work begins and returns no result.      *)
C7_InvalidRejected == ~ValidArgs => pc \in {"start", "error"}

(* C8: no box whose score is <= score_threshold is among the selected      *)
(* indices; when every score of an image is <= score_threshold its         *)
(* num_valid is 0.                                                         *)
C8_BelowThresholdNeverSelected ==
    Done => \A b \in 1..batch_size :
                /\ \A i \in Selected(b) : Exceeds(scores_in[b][i + 1], score_threshold)
                /\ (\A p \in 1..num_boxes : ~Exceeds(scores_in[b][p], score_threshold))
                       => num_valid[b] = 0

(* a proper box scored exactly at the threshold next to a chosen one *)
C8_Witness ==
    /\ Done /\ ~score_threshold.neg_inf
    /\ \E b \in 1..batch_size :
        /\ num_valid[b] >= 1
        /\ \E p \in 1..num_boxes :
            /\ scores_in[b][p] = score_threshold.value
            /\ AnyPositive(boxes_in[b][p])

(* C9: the result of an image within a batch equals the result of the call *)
(* on that image alone, with the same parameters.                          *)
C9_BatchIndependent ==
    (Done /\ ValidArgs /\ batch_size > 1) =>
        \A b \in 1..batch_size :
            LET r == non_max_suppression(<<boxes_in[b]>>, <<scores_in[b]>>, max_output_size,
                                         iou_threshold, score_threshold, tile_size)
            IN  r.idx[1] = ret_idx[b] /\ r.num_valid[1] = num_valid[b]

(***************************************************************************)
(* mask_invalid_detections.  bounding_boxes is a function from the keys it *)
(* has to their values: "boxes"[b][p] a box, "labels"[b][p] and            *)
(* "confidence"[b][p] numbers, "num_detections"[b] a number; "ids" stands  *)
(* for any further key.  The values are tensors (the list checks of lines  *)
(* 575-589 do not apply).                                                  *)
(***************************************************************************)
MaxSlots == 2
MaxBatch == 2

MinusOnes == <<-1, -1, -1, -1>>

(* lines 594-598: position p (1-based) of an image with n detections *)
detection_mask_inclusive(p, n) == p - 1 <= n

detection_mask(p, n) == p - 1 < n

(* ops.where(mask, x, -ones_like(x)) on [batch][position] *)
masked_values(x, num_detections, minus_one) ==
    Tup([b \in 1..Len(x) |->
        Tup([p \in 1..Len(x[b]) |->
            IF detection_mask(p, num_detections[b]) THEN x[b][p] ELSE minus_one])])

(* lines 556-571 *)
mask_rejects(bb) ==
    "labels" \notin DOMAIN bb \/ "boxes" \notin DOMAIN bb \/ "num_detections" \notin DOMAIN bb

(* lines 573-617 *)
mask_invalid_detections(bb) ==
    [key \in DOMAIN bb |->
        CASE key = "boxes" -> masked_values(bb.boxes, bb.num_detections, MinusOnes)
          [] key = "labels" -> masked_values(bb.labels, bb.num_detections, -1)
          [] key = "confidence" -> masked_values(bb.confidence, bb.num_detections, -1)
          [] OTHER -> bb[key]]

MaskKeys == {"boxes", "labels", "confidence", "num_detections", "ids"}

(* the detections of one image: slot p holds box Slide(p) with confidence  *)
(* p, a label, and a count that may exceed the number of slots             *)
MaskImages(m) == [labels : [1..m -> {0, 1}], num_detections : 0..(m + 1)]

MaskInput(keys, images) ==
    [key \in keys |->
        CASE key = "boxes" ->
                 Tup([b \in 1..Len(images) |->
                     Tup([p \in 1..Len(images[b].labels) |-> Slide(p)])])
          [] key = "labels" -> Tup([b \in 1..Len(images) |-> images[b].labels])
          [] key = "confidence" ->
                 Tup([b \in 1..Len(images) |->
                     Tup([p \in 1..Len(images[b].labels) |-> p])])
          [] key = "num_detections" ->
                 Tup([b \in 1..Len(images) |-> images[b].num_detections])
          [] OTHER -> Tup([b \in 1..Len(images) |-> b])]

InitMask ==
    /\ pc = "mask_start"
    /\ boxes_in = << >> /\ scores_in = << >> /\ max_output_size = 0
    /\ iou_threshold = 0 /\ score_threshold = NegInf /\ tile_size = 1
    /\ sorted_indices = << >> /\ boxes = << >> /\ scores = << >>
    /\ output_size = << >> /\ idx = 0
    /\ box_slice = << >> /\ inner_idx = 0 /\ iou = << >>
    /\ loop_condition = FALSE /\ iou_sum = << >> /\ self_steps = 0
    /\ ret_idx = << >> /\ num_valid = << >>
    /\ result = NoMask
    /\ \E keys \in SUBSET MaskKeys : \E n \in 1..MaxBatch : \E m \in 1..MaxSlots :
        \E images \in [1..n -> MaskImages(m)] :
            /\ Cardinality(MaskKeys \ keys) <= 1
            /\ bounding_boxes = MaskInput(keys, images)

MaskInvalidDetections ==
    /\ pc = "mask_start"
    /\ IF mask_rejects(bounding_boxes)
       THEN pc' = "error" /\ UNCHANGED result
       ELSE pc' = "masked" /\ result' = mask_invalid_detections(bounding_boxes)
    /\ UNCHANGED <<args, prepared, output_size, idx, tile_vars, returned, bounding_boxes>>

NextMask == MaskInvalidDetections

SpecMask == InitMask /\ [][NextMask]_vars

(* C10: mask_invalid_detections returns, for every image and position p:   *)
(* boxes, labels and (when present) confidence are -1 at p >=              *)
(* num_detections and unchanged at p < num_detections; every other key is  *)
(* unchanged.                                                              *)
C10_MaskedBeyondNumDetections ==
    pc = "masked" =>
        /\ DOMAIN result = DOMAIN bounding_boxes
        /\ \A key \in DOMAIN bounding_boxes \ {"boxes", "labels", "confidence"} :
               result[key] = bounding_boxes[key]
        /\ \A b \in 1..Len(bounding_boxes.boxes) : \A p \in 1..Len(bounding_boxes.boxes[b]) :
               IF p - 1 >= bounding_boxes.num_detections[b]
               THEN /\ result.boxes[b][p] = MinusOnes
                    /\ result.labels[b][p] = -1
                    /\ "confidence" \in DOMAIN bounding_boxes => result.confidence[b][p] = -1
               ELSE /\ result.boxes[b][p] = bounding_boxes.boxes[b][p]
                    /\ result.labels[b][p] = bounding_boxes.labels[b][p]
                    /\ "confidence" \in DOMAIN bounding_boxes =>
                           result.confidence[b][p] = bounding_boxes.confidence[b][p]

(* a masked and an unmasked slot in one image, confidence and a further    *)
(* key present                                                             *)
C10_Witness ==
    /\ pc = "masked"
    /\ {"confidence", "ids"} \subseteq DOMAIN bounding_boxes
    /\ \E b \in 1..Len(bounding_boxes.boxes) :
        /\ bounding_boxes.num_detections[b] = 1
        /\ Len(bounding_boxes.boxes[b]) = 2
        /\ result.labels[b][2] = -1

(***************************************************************************)
(* The loops of _suppression_loop_body and of non_max_suppression.         *)
(***************************************************************************)
(* the self-suppression loop of the current tile has ended *)
SelfLoopEnded == pc = "self" /\ ~loop_condition

(* one more application of _self_suppression leaves the matrices alone *)
SelfFixedPoint == self_suppression(iou, iou_sum, iou_threshold).iou = iou

(* C11: for iou_threshold in [0,1] the self-suppression loop of a tile     *)
(* ends after at most tile_size executions of _self_suppression, and the   *)
(* IoU matrix it ends with is a fixed point of _self_suppression.          *)
C11_SelfSuppressionConverges ==
    (pc = "self" /\ ValidArgs) =>
        /\ self_steps <= tile_size
        /\ SelfLoopEnded => SelfFixedPoint

(* the exit test of the tile loop as the driver's state machine has it *)
StopTest == idx = num_iterations \/ MinSeq(output_size) >= max_output_size

(* the pc values of a call that is inside or past the tile loop *)
InDriver == pc \in {"loop", "cross", "self", "done"}

(* C12: for tile_size > 0 the tile loop starts at idx = 0 with output_size *)
(* 0 for every image; an iteration is entered only while the exit test is  *)
(* false, works on tile idx and advances idx by exactly 1; the loop is     *)
(* left exactly at the first state where idx = num_iterations or the       *)
(* minimum of output_size is >= max_output_size; so idx never passes       *)
(* num_iterations, and with max_output_size = 0 no iteration runs.         *)
C12_LoopDriver ==
    /\ [](tile_size > 0 /\ InDriver =>
            /\ idx \in 0..num_iterations
            /\ pc \in {"cross", "self"} => ~StopTest
            /\ pc = "done" => StopTest
            /\ max_output_size = 0 => idx = 0 /\ pc \in {"loop", "done"})
    /\ [][tile_size > 0 =>
            /\ pc = "start" /\ pc' = "loop" =>
                    idx' = 0 /\ \A b \in 1..batch_size : output_size'[b] = 0
            /\ pc = "loop" =>
                    /\ StopTest => pc' = "done"
                    /\ ~StopTest =>
                            /\ pc' = "cross"
                            /\ \A b \in 1..batch_size : \A p \in 1..tile_size :
                                   box_slice'[b][p] = boxes[b][idx * tile_size + p]
            /\ idx' # idx => pc = "self" /\ pc' = "loop" /\ idx' = idx + 1
            /\ pc \in {"cross", "self"} /\ pc' = "loop" => idx' = idx + 1]_vars

(* the loop was left before the last tile, after at least one iteration,   *)
(* because every image had max_output_size boxes                           *)
C12_Witness ==
    /\ pc = "done" /\ tile_size > 0
    /\ 0 < idx /\ idx < num_iterations
    /\ MinSeq(output_size) >= max_output_size

(* the 1-based positions of tile t: the range [t*tile_size, (t+1)*tile_size) *)
TileRange(t) == (t * tile_size + 1)..((t + 1) * tile_size)

(* a step that ends one execution of _suppression_loop_body *)
TileDone == pc = "self" /\ pc' = "loop"

(* C13: one execution of _suppression_loop_body for tile idx leaves every  *)
(* box outside [idx*tile_size, (idx+1)*tile_size) as it was, changes a box *)
(* inside only by setting its coordinates to 0, and adds to output_size of *)
(* each image the number of boxes of the tile that still have a positive   *)
(* coordinate; output_size never decreases.                                *)
C13_TileFrame ==
    [][(pc \in {"loop", "cross", "self"}) =>
        /\ ~TileDone => boxes' = boxes /\ output_size' = output_size
        /\ TileDone =>
              /\ Len(boxes') = Len(boxes)
              /\ \A b \in 1..batch_size :
                    /\ Len(boxes'[b]) = Len(boxes[b])
                    /\ \A p \in 1..Len(boxes[b]) \ TileRange(idx) :
                           boxes'[b][p] = boxes[b][p]
                    /\ \A p \in TileRange(idx) :
                           boxes'[b][p] \in {boxes[b][p], ZeroBox}
                    /\ output_size'[b] = output_size[b] +
                           Cardinality({p \in TileRange(idx) : AnyPositive(boxes'[b][p])})
                    /\ output_size'[b] >= output_size[b]]_vars

(* the second tile is done: one of its boxes was set to 0, another was     *)
(* kept and counted, and the loop goes on                                  *)
C13_Witness ==
    /\ pc = "loop" /\ idx = 2 /\ LoopCond
    /\ \E b \in 1..batch_size : \E p, q \in TileRange(1) :
          /\ AnyPositive(prepared_boxes(boxes_in, scores_in, max_output_size,
                                        score_threshold, tile_size)[b][p])
          /\ boxes[b][p] = ZeroBox
          /\ AnyPositive(boxes[b][q])
          /\ output_size[b] >= 2

====
